---------------------------- MODULE Spec2Model ----------------------------
(***************************************************************************)
(* A model of the simple_hll crate: the HyperLogLog sketch                 *)
(* (src/src/hyperloglog.rs) and its Empty / Sparse / Full serialization    *)
(* (src/src/serde.rs).                                                     *)
(*                                                                         *)
(* Representation of the program's values:                                 *)
(*  - a u64 is the set of its set bit positions, a subset of 0..63;        *)
(*  - a Vec<u8> is the record [len, nz]: its length and the function from  *)
(*    the indices of its non-zero bytes to those bytes.  Get reads it as    *)
(*    the vector it stands for, Set writes one byte.  Two vectors are equal *)
(*    exactly when their records are equal;                                *)
(*  - an f64 of the estimator is "zero" (exactly 0.0), "inf" (+infinity)   *)
(*    or "fin" (a finite value the model does not track); the branches of  *)
(*    hll_tau and hll_sigma depend on exact comparisons of dyadic          *)
(*    fractions and are decided exactly.                                   *)
(***************************************************************************)
EXTENDS Integers, Sequences, FiniteSets, TLC

VARIABLES
    P,      \* the const generic P of HyperLogLog<P>, fixed for a run
    hll,    \* hll[k]: the registers of the sketch held in slot k
    fed,    \* fed[k]: the hashes that reached slot k since its construction,
            \*         by add_hash or through a merged sketch (history)
    ret     \* the most recent call: its name, what it returned and, for a
            \*         call that returns a value, its slot and its input

vars == <<P, hll, fed, ret>>

---------------------------------------------------------------------------
(* Program constants *)

MinP == 4
MaxP == 18
U64Bits == 64
IndexBits == 16
ByteBits == 8
HistogramLen == 64

(* Bounds of the model *)

ModelMaxP == 5
NumSketches == 2
NumWorkers == 3

\* the sketches of a caller, and the sketches of the workers of a parallel
\* ingestion
Slots == 1..NumSketches
Workers == 1..NumWorkers
AllSlots == Slots \cup Workers

\* The least precision whose register indices do not all fit the u16 of a
\* sparse entry.
WideP == IndexBits + 1

Precisions == MinP..ModelMaxP
CodecPrecisions == {MinP, MinP + 1, WideP}

---------------------------------------------------------------------------
(* Integers and u64 bit sets *)

Pow2(n) == 2 ^ n

Max(a, b) == IF a >= b THEN a ELSE b

MinOf(S) == CHOOSE x \in S : \A y \in S : x <= y

\* n as u64, for 0 <= n < 2^31
FromInt(n) == {i \in 0..30 : (n \div Pow2(i)) % 2 = 1}

RECURSIVE ToInt(_)
\* a u64 below 2^31 as usize
ToInt(bits) ==
    IF bits = {} THEN 0
    ELSE LET b == MinOf(bits) IN Pow2(b) + ToInt(bits \ {b})

\* x >> n
Shr(bits, n) == {i - n : i \in {j \in bits : j >= n}}

\* u64::trailing_zeros
trailing_zeros(bits) == IF bits = {} THEN U64Bits ELSE MinOf(bits)

\* The hashes the callers feed: two hashes of bucket 2, the first with no bit
\* above the index bits (only the sentinel bit stops the scan) and the second
\* with a lower rank, and all ones (the last bucket, rank 1).
Hashes == { {1}, {1, 6}, 0..63 }

\* The hashes fed where the codec is exercised: bit 16 alone is bucket 65536
\* of a sketch of precision 17.
CodecHashes == { {16}, {0, 17} }

---------------------------------------------------------------------------
(* Vec<u8> *)

Zeros(n) == [len |-> n, nz |-> [i \in {} |-> 0]]

Filled(n, x) == [len |-> n, nz |-> [i \in 0..(n - 1) |-> x]]

Get(v, i) == IF i \in DOMAIN v.nz THEN v.nz[i] ELSE 0

Set(v, i, x) ==
    [len |-> v.len,
     nz  |-> IF x = 0
             THEN [j \in DOMAIN v.nz \ {i} |-> v.nz[j]]
             ELSE [j \in DOMAIN v.nz \cup {i} |-> IF j = i THEN x ELSE v.nz[j]]]

---------------------------------------------------------------------------
(* HyperLogLog<P> *)

q(p) == U64Bits - p

number_registers(p) == Pow2(p)

register_mask(p) == FromInt(number_registers(p) - 1)

Panic == [ok |-> FALSE]
Ok(regs) == [ok |-> TRUE, regs |-> regs]

new(p) ==
    IF (p >= MinP) /\ (p <= MaxP) THEN Ok(Zeros(number_registers(p))) ELSE Panic

with_registers(p, registers) ==
    IF registers.len = number_registers(p) THEN Ok(registers) ELSE Panic

add_hash_overwrite(p, regs, hash) ==
    LET index == ToInt(hash \cap register_mask(p))
        one_position == trailing_zeros(Shr(hash, p) \cup {q(p)}) + 1
    IN  Set(regs, index, one_position % Pow2(ByteBits))

add_hash_no_sentinel(p, regs, hash) ==
    LET index == ToInt(hash \cap register_mask(p))
        one_position == trailing_zeros(Shr(hash, p)) + 1
    IN  Set(regs, index, Max(Get(regs, index), one_position % Pow2(ByteBits)))

add_hash(p, regs, hash) ==
    LET index == ToInt(hash \cap register_mask(p))
        one_position == trailing_zeros(Shr(hash, p) \cup {q(p)}) + 1
    IN  Set(regs, index, Max(Get(regs, index), one_position % Pow2(ByteBits)))

merge_overwrite(self, other) ==
    [len |-> self.len,
     nz  |-> [i \in {j \in DOMAIN self.nz \cup DOMAIN other.nz : j < self.len}
                |-> IF Get(other, i) # 0 THEN Get(other, i) ELSE Get(self, i)]]

merge(self, other) ==
    [len |-> self.len,
     nz  |-> [i \in {j \in DOMAIN self.nz \cup DOMAIN other.nz : j < self.len}
                |-> Max(Get(self, i), Get(other, i))]]

num_empty_registers(regs) == regs.len - Cardinality(DOMAIN regs.nz)


---------------------------------------------------------------------------
(* The estimator.  An f64 is "zero", "fin" or "inf" (see the head of the   *)
(* module); x of hll_tau and hll_sigma is the exact fraction num / den.    *)

F64 == {"zero", "fin", "inf"}

FMul(m, a) == a                      \* m * a, for a finite m > 0

FAddCount(z, n) ==                   \* z + n as f64, for a count n >= 0
    IF z = "inf" THEN "inf" ELSE IF z = "zero" /\ n = 0 THEN "zero" ELSE "fin"

FHalf(z) == z                        \* z * 0.5

FAdd(a, b) ==
    IF a = "inf" \/ b = "inf" THEN "inf"
    ELSE IF a = "zero" /\ b = "zero" THEN "zero" ELSE "fin"

FDiv(z) ==                           \* c / z, for a finite c > 0
    IF z = "inf" THEN "zero" ELSE IF z = "zero" THEN "inf" ELSE "fin"

\* f64::round followed by the saturating cast as usize
RoundAsUsize(x) ==
    IF x = "zero" THEN [kind |-> "exact", n |-> 0]
    ELSE IF x = "inf" THEN [kind |-> "usize_max", n |-> 0]
    ELSE [kind |-> "untracked", n |-> 0]

get_histogram(regs) ==
    IF \E i \in DOMAIN regs.nz : regs.nz[i] >= HistogramLen
    THEN [ok |-> FALSE, hist |-> <<>>]
    ELSE [ok |-> TRUE,
          hist |-> [v \in 0..(HistogramLen - 1) |->
                       IF v = 0 THEN regs.len - Cardinality(DOMAIN regs.nz)
                       ELSE Cardinality({i \in DOMAIN regs.nz : regs.nz[i] = v})]]

hll_sigma_as_tau(num, den) ==
    IF num = 0 \/ num = den THEN "zero" ELSE "fin"

hll_sigma(num, den) ==
    IF num = den THEN "inf"
    ELSE IF num = 0 THEN "zero"      \* the loop stops at once with z = 0.0
    ELSE "fin"

hll_tau(num, den) ==
    IF num = 0 \/ num = den THEN "zero" ELSE "fin"

RECURSIVE fold_histogram(_, _, _)
\* for i in histogram[1..=q].iter().rev() { z += *i as f64; z *= 0.5; }
fold_histogram(z, hist, i) ==
    IF i < 1 THEN z
    ELSE LET z1 == FHalf(FAddCount(z, hist[i]))
         IN  CASE z1 \in F64 -> fold_histogram(z1, hist, i - 1)

count(p, regs) ==
    LET h == get_histogram(regs)
    IN  IF ~h.ok THEN [kind |-> "panic", n |-> 0]
        ELSE LET m  == number_registers(p)
                 z0 == FMul(m, hll_tau(m - h.hist[q(p) + 1], m))
                 z1 == fold_histogram(z0, h.hist, q(p))
                 z2 == FAdd(z1, FMul(m, hll_sigma(h.hist[0], m)))
             IN  RoundAsUsize(FDiv(z2))

---------------------------------------------------------------------------
(* HyperLogLogVariant and the conversions of serde.rs *)

Variant(tag, data, regs) == [tag |-> tag, data |-> data, regs |-> regs]

Empty == Variant("Empty", <<>>, Zeros(0))
Sparse(data) == Variant("Sparse", data, Zeros(0))
Full(regs) == Variant("Full", <<>>, regs)
\* input bytes that are no variant at all: the framing library's error
Garbage == Variant("Garbage", <<>>, Zeros(0))

RECURSIVE sparse_data(_, _)
\* the (index as u16, value) of the non-zero registers, in iteration order
sparse_data(regs, todo) ==
    IF todo = {} THEN <<>>
    ELSE LET index == MinOf(todo)
         IN  << <<index % Pow2(IndexBits), regs.nz[index]>> >>
                 \o sparse_data(regs, todo \ {index})

variant_from_hll(p, regs) ==
    LET none_empty_registers == number_registers(p) - num_empty_registers(regs)
    IN  IF none_empty_registers = 0 THEN Empty
        ELSE IF none_empty_registers * 3 <= number_registers(p)
             THEN Sparse(sparse_data(regs, DOMAIN regs.nz))
             ELSE Full(regs)

RECURSIVE write_sparse(_, _, _)
\* for (index, val) in data { registers[index as usize] = val; }
write_sparse(registers, data, n) ==
    IF n > Len(data) THEN Ok(registers)
    ELSE IF data[n][1] >= registers.len THEN Panic     \* index out of bounds
    ELSE write_sparse(Set(registers, data[n][1], data[n][2]), data, n + 1)

hll_from_variant(p, value) ==
    CASE value.tag = "Empty"  -> new(p)
      [] value.tag = "Sparse" ->
            LET w == write_sparse(Zeros(Pow2(p)), value.data, 1)
            IN  IF w.ok THEN with_registers(p, w.regs) ELSE Panic
      [] value.tag = "Full"   -> with_registers(p, value.regs)

serialize(p, regs) == variant_from_hll(p, regs)

\* "err": Err(e) of the framing library; "panic": the conversion panicked
deserialize(p, wire) ==
    IF wire.tag = "Garbage" THEN [kind |-> "err", regs |-> Zeros(0)]
    ELSE LET r == hll_from_variant(p, wire)
         IN  IF r.ok THEN [kind |-> "ok", regs |-> r.regs]
             ELSE [kind |-> "panic", regs |-> Zeros(0)]

---------------------------------------------------------------------------
(* Inputs of the codec's callers *)

\* a vector of n bytes, zero but for the bytes of the function nz
Bytes(n, nz) == [len |-> n, nz |-> nz]

RegisterInputs(p) ==
    LET m == number_registers(p)
    IN  { Bytes(m, [i \in {0} |-> 255]),
          Bytes(m - 1, [i \in {0} |-> 1]) }
        \cup (IF p <= ModelMaxP
              THEN { Filled(m, 1),
                     \* the most registers Sparse takes, and one more
                     Bytes(m, [i \in 1..(m \div 3) |-> 2]),
                     Bytes(m, [i \in 0..(m \div 3) |-> 2]) }
              ELSE {})

WireInputs(p) ==
    LET m == number_registers(p)
    IN  { Garbage,
          Sparse(<< <<0, 200>> >>),
          Sparse(<< <<2, 1>>, <<Pow2(IndexBits) - 1, 1>> >>),
          Full(Bytes(m - 1, [i \in {0} |-> 1])) }

---------------------------------------------------------------------------
(* The calls *)

Unit == [kind |-> "unit", n |-> 0]
NoArg == "none"

Call(op, k, arg, val) ==
    [op |-> op, slot |-> k, arg |-> arg, val |-> val, status |-> "returned"]

Panicked(op, k, arg) ==
    [op |-> op, slot |-> k, arg |-> arg, val |-> Unit, status |-> "panicked"]

\* a panic ends the run
Running == ret.status = "returned"

NewSketch(k) ==
    /\ Running
    /\ LET r == new(P)
       IN  IF r.ok
           THEN /\ hll' = [hll EXCEPT ![k] = r.regs]
                /\ fed' = [fed EXCEPT ![k] = {}]
                /\ ret' = Call("new", k, NoArg, Unit)
           ELSE /\ ret' = Panicked("new", k, NoArg)
                /\ UNCHANGED <<hll, fed>>
    /\ UNCHANGED P

WithRegisters(k, registers) ==
    /\ Running
    /\ LET r == with_registers(P, registers)
       IN  IF r.ok
           THEN /\ hll' = [hll EXCEPT ![k] = r.regs]
                /\ fed' = [fed EXCEPT ![k] = {}]
                /\ ret' = Call("with_registers", k, registers, Unit)
           ELSE /\ ret' = Panicked("with_registers", k, registers)
                /\ UNCHANGED <<hll, fed>>
    /\ UNCHANGED P

AddHash(k, hash) ==
    /\ Running
    /\ hll' = [hll EXCEPT ![k] = add_hash(P, hll[k], hash)]
    /\ fed' = [fed EXCEPT ![k] = fed[k] \cup {hash}]
    /\ ret' = Call("add_hash", 0, NoArg, Unit)
    /\ UNCHANGED P

\* hll[k].merge(&hll[j]); j = k merges a clone
Merge(k, j) ==
    /\ Running
    /\ IF hll[j].len >= hll[k].len
       THEN /\ hll' = [hll EXCEPT ![k] = merge(hll[k], hll[j])]
            /\ fed' = [fed EXCEPT ![k] = fed[k] \cup fed[j]]
            /\ ret' = Call("merge", 0, NoArg, Unit)
       ELSE /\ ret' = Panicked("merge", 0, NoArg)          \* index out of bounds
            /\ UNCHANGED <<hll, fed>>
    /\ UNCHANGED P

Count(k) ==
    /\ Running
    /\ LET c == count(P, hll[k])
       IN  ret' = IF c.kind = "panic" THEN Panicked("count", k, NoArg)
                  ELSE Call("count", k, NoArg, c)
    /\ UNCHANGED <<P, hll, fed>>

Serialize(k) ==
    /\ Running
    /\ ret' = Call("serialize", k, NoArg, serialize(P, hll[k]))
    /\ UNCHANGED <<P, hll, fed>>

Deserialize(k, wire) ==
    /\ Running
    /\ LET r == deserialize(P, wire)
       IN  CASE r.kind = "ok" ->
                   /\ hll' = [hll EXCEPT ![k] = r.regs]
                   /\ fed' = [fed EXCEPT ![k] = {}]
                   /\ ret' = Call("deserialize", k, wire, [kind |-> "ok", n |-> 0])
             [] r.kind = "err" ->
                   /\ ret' = Call("deserialize", k, wire, [kind |-> "err", n |-> 0])
                   /\ UNCHANGED <<hll, fed>>
             [] r.kind = "panic" ->
                   /\ ret' = Panicked("deserialize", k, wire)
                   /\ UNCHANGED <<hll, fed>>
    /\ UNCHANGED P

\* what a caller may hand to deserialize: crafted input, or what the last
\* serialize call returned
Wires == WireInputs(P) \cup (IF ret.op = "serialize" THEN {ret.val} ELSE {})

---------------------------------------------------------------------------
(* Specifications *)

Start(precisions) ==
    /\ P \in precisions
    /\ hll = [k \in AllSlots |-> new(P).regs]
    /\ fed = [k \in AllSlots |-> {}]
    /\ ret = Call("init", 0, NoArg, Unit)

\* sketches built by new, add_hash and merge, and read by count
Init == Start(Precisions)

Next ==
    \E k \in Slots :
        \/ NewSketch(k)
        \/ \E hash \in Hashes : AddHash(k, hash)
        \/ \E j \in Slots : Merge(k, j)
        \/ Count(k)

Spec == Init /\ [][Next]_vars

\* sketches built by new and add_hash alone
NextIngest ==
    \E k \in Slots :
        \/ NewSketch(k)
        \/ \E hash \in Hashes : AddHash(k, hash)

SpecIngest == Init /\ [][NextIngest]_vars

\* workers that ingest in parallel and are merged in any order
NextWorkers ==
    \E k \in Workers :
        \/ \E hash \in Hashes : AddHash(k, hash)
        \/ \E j \in Workers : Merge(k, j)

SpecWorkers == Init /\ [][NextWorkers]_vars

\* every public operation, the codec included
InitCodec == Start(CodecPrecisions)

NextCodec ==
    \E k \in Slots :
        \/ NewSketch(k)
        \/ \E registers \in RegisterInputs(P) : WithRegisters(k, registers)
        \/ \E hash \in CodecHashes : AddHash(k, hash)
        \/ \E j \in Slots : Merge(k, j)
        \/ Count(k)
        \/ Serialize(k)
        \/ \E wire \in Wires : Deserialize(k, wire)

SpecCodec == InitCodec /\ [][NextCodec]_vars


---------------------------------------------------------------------------
(* Properties of the sketch: new, add_hash, merge, count *)

EmptySketch == new(P).regs

Sketches == {hll[k] : k \in AllSlots} \cup {EmptySketch}

Indices(regs) == 0..(regs.len - 1)

\* C2: merge is the pointwise maximum of two register stores of equal
\* length; it is commutative, associative and idempotent, and the all-zero
\* sketch is its identity.
C2_MergeAlgebra ==
    \A a \in Sketches, b \in Sketches :
        /\ a.len = b.len
        /\ merge(a, b).len = a.len
        /\ \A i \in Indices(a) : Get(merge(a, b), i) = Max(Get(a, i), Get(b, i))
        /\ merge(a, b) = merge(b, a)
        /\ merge(a, a) = a
        /\ merge(a, EmptySketch) = a
        /\ \A c \in Sketches : merge(merge(a, b), c) = merge(a, merge(b, c))

\* a merge has run and two sketches hold registers the other lacks
C2_Witness ==
    /\ ret.op = "merge"
    /\ \E j \in Workers, k \in Workers :
          /\ \E i \in Indices(hll[j]) : Get(hll[j], i) > Get(hll[k], i)
          /\ \E i \in Indices(hll[j]) : Get(hll[k], i) > Get(hll[j], i)
          /\ \E i \in Indices(hll[j]) : Get(hll[k], i) > 0 /\ Get(hll[j], i) > Get(hll[k], i)

\* C6: over add_hash and merge steps no register of any sketch decreases,
\* and every sketch keeps its 2^P registers.
C6_Monotone ==
    [][ (\E k \in Slots : \/ \E hash \in Hashes : AddHash(k, hash)
                          \/ \E j \in Slots : Merge(k, j))
        => \A k \in Slots :
              /\ hll[k].len = number_registers(P)
              /\ hll'[k].len = number_registers(P)
              /\ \A i \in Indices(hll[k]) : Get(hll'[k], i) >= Get(hll[k], i) ]_vars

\* add_hash has run on a sketch that took both hashes of bucket 2: one of
\* the two orders offered the lower rank to the register holding the higher
C6_Witness ==
    /\ ret.op = "add_hash"
    /\ \E k \in Slots :
          /\ {{1}, {1, 6}} \subseteq fed[k]
          /\ Get(hll[k], 2) = q(P) + 1

\* C7: count() of a sketch whose registers are all zero is 0: tau(1) = 0,
\* sigma(1) = +infinity, and the quotient rounds to 0; so it is for a new
\* sketch and for an empty sketch merged into an empty sketch.
C7_EmptyCount ==
    /\ hll_tau(number_registers(P), number_registers(P)) = "zero"
    /\ hll_sigma(number_registers(P), number_registers(P)) = "inf"
    /\ count(P, EmptySketch) = [kind |-> "exact", n |-> 0]
    /\ count(P, merge(EmptySketch, EmptySketch)) = [kind |-> "exact", n |-> 0]
    /\ (ret.op = "count" /\ \A i \in Indices(hll[ret.slot]) : Get(hll[ret.slot], i) = 0)
          => /\ ret.status = "returned"
             /\ ret.val.kind = "exact"
             /\ ret.val.n = 0

\* count has returned 0 for a sketch with all registers zero
C7_Witness ==
    /\ ret.op = "count"
    /\ ret.status = "returned"
    /\ ret.val.kind = "exact"
    /\ ret.val.n = 0
    /\ fed[ret.slot] = {}
    /\ \A i \in Indices(hll[ret.slot]) : Get(hll[ret.slot], i) = 0

\* index is hash mod 2^p: the number below 2^p with the low p bits of hash
IsIndex(index, hash, p) ==
    /\ index \in 0..(Pow2(p) - 1)
    /\ \A b \in 0..(p - 1) : ((index \div Pow2(b)) % 2 = 1) <=> (b \in hash)

\* rank is 1 + the number of zero bits of hash from bit p up to its first
\* set bit, the scan stopping at the sentinel bit q(p) of hash >> p
IsRank(rank, hash, p) ==
    /\ rank \in 1..(q(p) + 1)
    /\ \A j \in 0..(rank - 2) : (p + j) \notin hash
    /\ rank <= q(p) => (p + rank - 1) \in hash

AddHashEffect(before, after, hash, p) ==
    \E index \in Indices(before) :
        /\ IsIndex(index, hash, p)
        /\ \E rank \in 1..(q(p) + 1) :
              /\ IsRank(rank, hash, p)
              /\ after.len = before.len
              /\ Get(after, index) = Max(Get(before, index), rank)
              /\ \A i \in Indices(before) \ {index} : Get(after, i) = Get(before, i)

\* C8: add_hash(h) sets registers[h mod 2^P] to the maximum of its old value
\* and rank = trailing_zeros((h >> P) | (1 << Q)) + 1, with 1 <= rank <= Q+1,
\* and leaves every other register, and every other sketch, unchanged.
C8_AddHashFrame ==
    /\ [](\A k \in Slots, hash \in Hashes :
             AddHashEffect(hll[k], add_hash(P, hll[k], hash), hash, P))
    /\ [][ \A k \in Slots, hash \in Hashes :
              AddHash(k, hash)
              => /\ AddHashEffect(hll[k], hll'[k], hash, P)
                 /\ \A j \in Slots \ {k} : hll'[j] = hll[j] ]_vars

\* add_hash has run on a sketch fed the hash with no bit above the index
\* bits: the sentinel bit gave rank Q+1, and another bucket is filled too
C8_Witness ==
    /\ ret.op = "add_hash"
    /\ \E k \in Slots :
          /\ {1} \in fed[k]
          /\ Get(hll[k], 2) = q(P) + 1
          /\ Get(hll[k], number_registers(P) - 1) = 1

\* C9: sketches that received the same hashes by add_hash, in any order and
\* with any repetition, hold the same registers; adding a hash again changes
\* nothing.
C9_OrderIndependent ==
    /\ [](\A j \in Slots, k \in Slots : fed[j] = fed[k] => hll[j] = hll[k])
    /\ [][ \A k \in Slots, hash \in Hashes :
              (AddHash(k, hash) /\ hash \in fed[k]) => hll'[k] = hll[k] ]_vars

\* two sketches were fed both hashes of bucket 2 and hold the same registers
C9_Witness ==
    /\ ret.op = "add_hash"
    /\ \E j \in Slots, k \in Slots :
          /\ j # k
          /\ fed[j] = fed[k]
          /\ {{1}, {1, 6}} \subseteq fed[j]
          /\ hll[j] = hll[k]

RECURSIVE Sequential(_, _, _)
\* one sketch that receives every hash of todo through add_hash
Sequential(p, regs, todo) ==
    IF todo = {} THEN regs
    ELSE LET hash == CHOOSE x \in todo : TRUE
         IN  Sequential(p, add_hash(p, regs, hash), todo \ {hash})

\* C10: however the hashes are split among sketches and in whatever order
\* the sketches are merged, a sketch holds the registers of one sketch that
\* received, by add_hash alone, every hash that reached it.
C10_ParallelIngest ==
    \A k \in Workers : hll[k] = Sequential(P, EmptySketch, fed[k])

\* a merge has gathered every hash in one sketch, from workers each of which
\* holds some of the hashes and not all
C10_Witness ==
    /\ ret.op = "merge"
    /\ \E k \in Workers :
          /\ fed[k] = Hashes
          /\ \A j \in Workers \ {k} : fed[j] # {} /\ fed[j] # Hashes
    /\ \E j \in Workers, k \in Workers : fed[j] \cap fed[k] = {}

---------------------------------------------------------------------------
(* Properties of the codec and of the sketches it constructs *)

RoundTrip(p, regs) ==
    LET decoded == deserialize(p, serialize(p, regs))
    IN  decoded.kind = "ok" /\ decoded.regs = regs

\* C1: decoding the variant that serialize returned for a sketch yields the
\* registers of that sketch, whichever of Empty, Sparse and Full was chosen.
C1_RoundTrip ==
    ret.op = "serialize" =>
        /\ ret.val = serialize(P, hll[ret.slot])
        /\ RoundTrip(P, hll[ret.slot])

\* the same, for the precisions whose every register index fits a u16
C1_RoundTripNarrow ==
    (ret.op = "serialize" /\ P <= IndexBits) => RoundTrip(P, hll[ret.slot])

\* C3: every register of every sketch lies in 0..Q+1.
C3_RegisterRange ==
    \A k \in Slots : \A i \in DOMAIN hll[k].nz : hll[k].nz[i] \in 0..(q(P) + 1)

\* the same, for the sketches built by new, add_hash and merge alone
C3_RegisterRangeIngested ==
    \A k \in Workers : \A i \in DOMAIN hll[k].nz : hll[k].nz[i] \in 0..(q(P) + 1)

\* a Sparse entry with an index >= 2^p, or a Full payload not 2^p bytes long
Malformed(p, wire) ==
    \/ /\ wire.tag = "Sparse"
       /\ \E n \in 1..Len(wire.data) : wire.data[n][1] >= number_registers(p)
    \/ /\ wire.tag = "Full"
       /\ wire.regs.len # number_registers(p)

\* C4: deserialize of a malformed variant returns a decode error to its
\* caller: it does not panic, and it constructs no sketch.
C4_DecodeFailure ==
    (ret.op = "deserialize" /\ Malformed(P, ret.arg)) =>
        /\ ret.status = "returned"
        /\ ret.val.kind = "err"

\* the part of C4 the code keeps: a malformed variant constructs no sketch
C4_NoSketchFromMalformed ==
    [][ \A k \in Slots, wire \in Wires :
           (Deserialize(k, wire) /\ Malformed(P, wire)) => UNCHANGED <<hll, fed>> ]_vars

\* the registers that are not zero
NonZero(regs) == {i \in DOMAIN regs.nz : regs.nz[i] # 0}

\* the choice of C5 among the three variants
Selection(p, regs) ==
    LET m == number_registers(p)
        non_empty == Cardinality(NonZero(regs))
    IN  IF non_empty = 0 THEN "Empty"
        ELSE IF non_empty * 3 <= m THEN "Sparse" ELSE "Full"

\* data lists exactly the non-zero registers, as (index, value), ascending
ListsNonZero(data, regs) ==
    /\ Len(data) = Cardinality(NonZero(regs))
    /\ \A n \in 1..Len(data) :
          /\ data[n][1] \in NonZero(regs)
          /\ data[n][2] = regs.nz[data[n][1]]
    /\ \A n \in 1..(Len(data) - 1) : data[n][1] < data[n + 1][1]

\* C5: serialize chooses Empty when no register is set, Sparse when the set
\* registers number at most a third of m, Full otherwise; a Sparse result
\* lists exactly the non-zero registers as (index, value), ascending.
C5_VariantSelection ==
    ret.op = "serialize" =>
        /\ ret.val.tag = Selection(P, hll[ret.slot])
        /\ ret.val.tag = "Sparse" => ListsNonZero(ret.val.data, hll[ret.slot])
        /\ ret.val.tag = "Full" => ret.val.regs = hll[ret.slot]

\* the same, for the precisions whose every register index fits a u16
C5_VariantSelectionNarrow ==
    P <= IndexBits => C5_VariantSelection

\* the choice alone, which the code makes as C5 says
C5_SelectionOnly ==
    ret.op = "serialize" => ret.val.tag = Selection(P, hll[ret.slot])

===========================================================================
